---- MODULE Spec2Model ----
(***************************************************************************)
(* Model of src/src/components/shared/EntityEmailHistory.tsx:              *)
(*   - EntityEmailHistory: the email-activity viewer (fetch, realtime       *)
(*     subscription, badge selection, bounce-reason cleanup);              *)
(*   - DashboardCustomizeModal: the dashboard-customization dialog.        *)
(***************************************************************************)
EXTENDS Integers, Sequences, FiniteSets, TLC

VARIABLES
  \* ---- EntityEmailHistory ----
  mounted,        \* the component instance exists
  entityType,     \* prop
  entityId,       \* prop ("" is the empty string)
  emails,         \* useState<EmailHistoryItem[]>
  loading,        \* useState(true)
  selectedEmail,  \* useState<EmailHistoryItem | null>
  db,             \* the remote email_history table: id -> row or NULL
  dbOps,          \* number of writes the table has seen (also the send clock)
  events,         \* number of environment events so far
  fetches,        \* fetchEmails calls awaiting their query, in issue order
  channels,       \* realtime channels currently subscribed on the client
  hasCleanup,     \* the last run of the subscription effect returned a cleanup
  notifQ,         \* change notifications in flight to the subscribed handler
  emailsFor,      \* history: the entity whose query result setEmails last stored
  gotCurrent,     \* history: a result for the current entity was stored since it became current
  showTechnicalDetails, \* useState(false)
  replies,        \* useState<EmailReply[]>
  loadingReplies, \* useState(false)
  replyFetches,   \* email_replies queries awaiting their answer: the email ids, in issue order
  lastDialogOp,   \* history: what last happened to the dialog
  \* ---- DashboardCustomizeModal ----
  widgetOrder,    \* prop
  visibleWidgets, \* prop
  widgetSizes,    \* prop
  widgets,        \* useState<DashboardWidget[]>
  saved,          \* the calls of onSave so far, oldest first
  lastOp,         \* history: the handler that ran last, with its arguments
  prevWidgets,    \* history: widgets before that handler ran
  modalOps,       \* number of handler runs so far
  \* ---- one card of the list (getStatusBadge, getOpenCountDisplay)
  email,          \* the EmailHistoryItem of the card
  now,            \* Date.now(), in ms
  badge,          \* what getStatusBadge returned at the last render
  openDisplay,    \* what getOpenCountDisplay returned at the last render
  ticks,          \* number of times the clock advanced
  \* ---- the bounce panel of the dialog (cleanBounceReason)
  reason,         \* selectedEmail.bounce_reason
  cleanedReason   \* what cleanBounceReason returned at the last render

dialogVars == <<showTechnicalDetails, replies, loadingReplies, replyFetches, lastDialogOp>>

viewerVars == <<mounted, entityType, entityId, emails, loading, selectedEmail, db,
                dbOps, fetches, channels, hasCleanup, notifQ, emailsFor, gotCurrent,
                events, dialogVars>>

modalVars == <<widgetOrder, visibleWidgets, widgetSizes, widgets, saved, lastOp,
               prevWidgets, modalOps>>

cardVars == <<email, now, badge, openDisplay, ticks>>
bounceVars == <<reason, cleanedReason>>

vars == <<viewerVars, modalVars, cardVars, bounceVars>>
nonViewerVars == <<modalVars, cardVars, bounceVars>>
nonModalVars == <<viewerVars, cardVars, bounceVars>>
nonCardVars == <<viewerVars, modalVars, bounceVars>>
nonBounceVars == <<viewerVars, modalVars, cardVars>>

NULL == "null"
\* null as an EmailHistoryItem | null
NoEmail == [null |-> TRUE]

NoOp == [op |-> "none", key |-> NULL, size |-> NULL, source |-> -1, destination |-> -1]

\* the dialog is not on the page
IdleModal ==
  /\ widgetOrder = <<>>
  /\ visibleWidgets = <<>>
  /\ widgetSizes = <<>>
  /\ widgets = <<>>
  /\ saved = <<>>
  /\ lastOp = NoOp
  /\ prevWidgets = <<>>
  /\ modalOps = 0

\* null as a string | null, for texts held as sequences of characters
NullStr == <<"null">>
\* null as a number | null (lines 51, 52, 57)
NullCount == -1
NotRendered == [badge |-> "none", title |-> ""]
NoResult == [summary |-> <<>>, technical |-> NullStr, rendered |-> FALSE]

\* no card is rendered
IdleCard ==
  /\ email = NoEmail
  /\ now = 0
  /\ badge = NotRendered
  /\ openDisplay = NotRendered
  /\ ticks = 0

\* no bounce panel is rendered
IdleBounce ==
  /\ reason = NullStr
  /\ cleanedReason = NoResult

\* the viewer is not on the page
IdleViewer ==
  /\ mounted = FALSE
  /\ entityType = "contact"
  /\ entityId = ""
  /\ emails = <<>>
  /\ loading = TRUE
  /\ selectedEmail = NoEmail
  /\ db = <<>>
  /\ dbOps = 0
  /\ events = 0
  /\ fetches = <<>>
  /\ channels = <<>>
  /\ hasCleanup = FALSE
  /\ notifQ = <<>>
  /\ emailsFor = <<>>
  /\ gotCurrent = FALSE
  /\ showTechnicalDetails = FALSE
  /\ replies = <<>>
  /\ loadingReplies = FALSE
  /\ replyFetches = <<>>
  /\ lastDialogOp = "closed"

\* ---------------------------------------------------------------- bounds
\* table writes, prop changes and remounts the environment performs in a run
MaxEvents == 3
\* email_replies queries outstanding when a card is clicked
MaxReplyFetches == 2

\* the entities of the model: one of each type, over two ids
Entities == {<<"contact", "A">>, <<"lead", "A">>, <<"account", "B">>}
\* the props the parent passes: an entity, or an empty entityId
Props == Entities \cup {<<"contact", "">>}
EmailIds == {"e1", "e2"}

\* ---------------------------------------------------------------- rows
EntityColumn(t) ==
  CASE t = "contact" -> "contact_id"
    [] t = "lead" -> "lead_id"
    [] t = "account" -> "account_id"

NewRow(id, t, e, at) ==
  [id |-> id,
   contact_id |-> IF t = "contact" THEN e ELSE NULL,
   lead_id |-> IF t = "lead" THEN e ELSE NULL,
   account_id |-> IF t = "account" THEN e ELSE NULL,
   status |-> "sent",
   sent_at |-> at,
   reply_count |-> 0,
   bounce_type |-> NULL,
   bounce_reason |-> NullStr]

\* lines 217-220: belongsToEntity
belongsToEntity(newEmail, t, e) ==
  \/ (t = "lead" /\ newEmail.lead_id = e)
  \/ (t = "contact" /\ newEmail.contact_id = e)
  \/ (t = "account" /\ newEmail.account_id = e)

RECURSIVE OrderBySentAtDesc(_)
OrderBySentAtDesc(S) ==
  IF S = {} THEN <<>>
  ELSE LET first == CHOOSE r \in S : \A q \in S : q.sent_at <= r.sent_at
       IN <<first>> \o OrderBySentAtDesc(S \ {first})

\* lines 170-181: the query, evaluated by the server against the table
Query(table, t, e) ==
  LET rows == {table[i] : i \in DOMAIN table}
      hit == {r \in rows :
                \/ (t = "contact" /\ r.contact_id = e)
                \/ (t = "lead" /\ r.lead_id = e)
                \/ (t = "account" /\ r.account_id = e)}
  IN OrderBySentAtDesc(hit)

\* { ...e, ...updatedEmail }
Spread(e, u) == [f \in DOMAIN e \cup DOMAIN u |-> IF f \in DOMAIN u THEN u[f] ELSE e[f]]

\* lines 227-229
ApplyUpdate(prev, updatedEmail) ==
  [i \in 1..Len(prev) |->
     IF prev[i].id = updatedEmail.id THEN Spread(prev[i], updatedEmail) ELSE prev[i]]

\* lines 214-234: the postgres_changes handler's effect on emails
HandlerEmails(prev, payload, t, e) ==
  IF payload.eventType = "INSERT"
  THEN IF belongsToEntity(payload.new, t, e) THEN <<payload.new>> \o prev ELSE prev
  ELSE IF payload.eventType = "UPDATE" THEN ApplyUpdate(prev, payload.new)
  ELSE prev

\* a handler that leaves selectedEmail alone
HandlerSelectedKept(sel, payload, closureSelId) == sel

\* lines 231-233
HandlerSelected(sel, payload, closureSelId) ==
  IF payload.eventType = "UPDATE" /\ closureSelId = payload.new.id
  THEN IF sel # NoEmail THEN Spread(sel, payload.new) ELSE NoEmail
  ELSE sel

SelId(sel) == IF sel = NoEmail THEN NULL ELSE sel.id

RemoveAt(s, i) == [j \in 1..(Len(s) - 1) |-> IF j < i THEN s[j] ELSE s[j + 1]]

\* an effect whose cleanup does not remove its channel
RemoveChannelForgotten(chs, had) == chs

\* lines 239-241: the cleanup of the subscription effect, supabase.removeChannel
RemoveChannel(chs, had) == IF had /\ Len(chs) > 0 THEN SubSeq(chs, 1, Len(chs) - 1) ELSE chs

\* lines 201-242: one run of the subscription effect (cleanup of the previous
\* run first, then the body)
SubscriptionEffect(chs, had, t, e, selId) ==
  LET cleaned == RemoveChannel(chs, had)
  IN IF e = ""
     THEN [channels |-> cleaned, hasCleanup |-> FALSE]
     ELSE [channels |-> Append(cleaned, [entityType |-> t, entityId |-> e, selId |-> selId]),
           hasCleanup |-> TRUE]

\* lines 248-251: the rows of email_replies with email_history_id = id (the
\* table holds one reply for every email and is not written during a run)
RepliesOf(id) == <<[id |-> <<"reply", id>>, email_history_id |-> id]>>

\* lines 245-265: one run of the replies effect, up to the query it issues
RepliesEffect(sel, reps, loadingR, pending) ==
  IF sel # NoEmail /\ sel.reply_count # NullCount /\ sel.reply_count > 0
  THEN [replies |-> reps, loadingReplies |-> TRUE, replyFetches |-> Append(pending, sel.id)]
  ELSE [replies |-> <<>>, loadingReplies |-> loadingR, replyFetches |-> pending]

\* a reset effect that does nothing
ResetEffectNone(sel, show) == show

\* lines 268-272: one run of the reset effect
ResetEffect(sel, show) == IF sel = NoEmail THEN FALSE ELSE show

\* lines 167-183 up to the await: fetchEmails issues its query
IssueFetch(fs, t, e) == Append(fs, [entityType |-> t, entityId |-> e, state |-> "pending", data |-> <<>>])

\* ---------------------------------------------------------------- Init
InitViewer ==
  /\ mounted = TRUE
  /\ \E p \in Props : entityType = p[1] /\ entityId = p[2]
  /\ emails = <<>>
  /\ loading = TRUE
  /\ selectedEmail = NoEmail
  /\ db = <<>>
  /\ dbOps = 0
  /\ fetches = IF entityId # "" THEN IssueFetch(<<>>, entityType, entityId) ELSE <<>>
  /\ channels = SubscriptionEffect(<<>>, FALSE, entityType, entityId, NULL).channels
  /\ hasCleanup = SubscriptionEffect(<<>>, FALSE, entityType, entityId, NULL).hasCleanup
  /\ notifQ = <<>>
  /\ emailsFor = <<>>
  /\ gotCurrent = FALSE
  /\ events = 0
  /\ showTechnicalDetails = FALSE
  /\ replies = <<>>
  /\ loadingReplies = FALSE
  /\ replyFetches = <<>>
  /\ lastDialogOp = "closed"
  /\ IdleModal
  /\ IdleCard
  /\ IdleBounce

\* ---------------------------------------------------------------- the table
Broadcast(q, ev, row) ==
  IF Len(channels) > 0
  THEN Append(q, [eventType |-> ev, new |-> row])
  ELSE q

DbInsert(id, t, e) ==
  /\ events < MaxEvents
  /\ events' = events + 1
  /\ id \notin DOMAIN db
  /\ LET row == NewRow(id, t, e, dbOps + 1)
     IN /\ db' = [i \in DOMAIN db \cup {id} |-> IF i = id THEN row ELSE db[i]]
        /\ notifQ' = Broadcast(notifQ, "INSERT", row)
  /\ dbOps' = dbOps + 1
  /\ UNCHANGED <<mounted, entityType, entityId, emails, loading, selectedEmail, fetches,
                 channels, hasCleanup, emailsFor, gotCurrent, dialogVars>>
  /\ UNCHANGED nonViewerVars

DbUpdate(id, f, v) ==
  /\ events < MaxEvents
  /\ events' = events + 1
  /\ id \in DOMAIN db
  /\ db[id][f] # v
  /\ LET row == [db[id] EXCEPT ![f] = v]
     IN /\ db' = [db EXCEPT ![id] = row]
        /\ notifQ' = Broadcast(notifQ, "UPDATE", row)
  /\ dbOps' = dbOps + 1
  /\ UNCHANGED <<mounted, entityType, entityId, emails, loading, selectedEmail, fetches,
                 channels, hasCleanup, emailsFor, gotCurrent, dialogVars>>
  /\ UNCHANGED nonViewerVars

\* the server evaluates a pending query, or fails it
ServerAnswer(i, ok) ==
  /\ i \in 1..Len(fetches)
  /\ fetches[i].state = "pending"
  /\ fetches' = [fetches EXCEPT ![i] =
                   IF ok
                   THEN [@ EXCEPT !.state = "ok",
                                  !.data = Query(db, fetches[i].entityType, fetches[i].entityId)]
                   ELSE [@ EXCEPT !.state = "error"]]
  /\ UNCHANGED <<mounted, entityType, entityId, emails, loading, selectedEmail, db, dbOps,
                 channels, hasCleanup, notifQ, emailsFor, gotCurrent, events, dialogVars>>
  /\ UNCHANGED nonViewerVars

\* ---------------------------------------------------------------- the component
\* a fetchEmails that stores the data of a failed query too
SetEmailsAfterQueryAlways(prev, r) == r.data

\* lines 185-188: an error is thrown past setEmails and only logged
SetEmailsAfterQuery(prev, r) == IF r.state = "error" THEN prev ELSE r.data

\* lines 183-191: the awaited query of a fetchEmails call resolves
FetchComplete(i) ==
  /\ mounted
  /\ i \in 1..Len(fetches)
  /\ fetches[i].state # "pending"
  /\ LET r == fetches[i]
     IN /\ emails' = SetEmailsAfterQuery(emails, r)
        /\ IF r.state = "error"
           THEN UNCHANGED <<emailsFor, gotCurrent>>
           ELSE /\ emailsFor' = <<r.entityType, r.entityId>>
                /\ gotCurrent' = (gotCurrent \/ (r.entityType = entityType /\ r.entityId = entityId))
  /\ loading' = FALSE
  /\ fetches' = RemoveAt(fetches, i)
  /\ UNCHANGED <<mounted, entityType, entityId, selectedEmail, db, dbOps, channels,
                 hasCleanup, notifQ, events, dialogVars>>
  /\ UNCHANGED nonViewerVars

\* lines 213-235: the subscribed handler receives the oldest notification
Notify ==
  /\ mounted
  /\ Len(notifQ) > 0
  /\ Len(channels) > 0
  /\ LET payload == Head(notifQ)
         ch == channels[Len(channels)]
         \* line 232 stored a new object: the replies effect (245-265) runs
         \* again, the reset effect (268-272) finds an email selected
         stored == payload.eventType = "UPDATE" /\ ch.selId = payload.new.id
                   /\ selectedEmail # NoEmail
         sel == HandlerSelected(selectedEmail, payload, ch.selId)
         r == RepliesEffect(sel, replies, loadingReplies, replyFetches)
     IN /\ emails' = HandlerEmails(emails, payload, ch.entityType, ch.entityId)
        /\ selectedEmail' = sel
        /\ IF stored
           THEN /\ replies' = r.replies
                /\ loadingReplies' = r.loadingReplies
                /\ replyFetches' = r.replyFetches
                /\ showTechnicalDetails' = ResetEffect(sel, showTechnicalDetails)
                /\ lastDialogOp' = "updated"
           ELSE UNCHANGED dialogVars
  /\ notifQ' = Tail(notifQ)
  /\ UNCHANGED <<mounted, entityType, entityId, loading, db, dbOps, fetches, channels,
                 hasCleanup, emailsFor, gotCurrent, events>>
  /\ UNCHANGED nonViewerVars

\* the parent re-renders the viewer with other props; effects at 194-198, 201-242
ChangeEntity(t, e) ==
  /\ mounted
  /\ events < MaxEvents
  /\ events' = events + 1
  /\ <<t, e>> # <<entityType, entityId>>
  /\ entityType' = t
  /\ entityId' = e
  /\ IF e # ""
     THEN /\ loading' = TRUE
          /\ fetches' = IssueFetch(fetches, t, e)
     ELSE UNCHANGED <<loading, fetches>>
  /\ LET s == SubscriptionEffect(channels, hasCleanup, t, e, SelId(selectedEmail))
     IN /\ channels' = s.channels
        /\ hasCleanup' = s.hasCleanup
  /\ notifQ' = <<>>
  /\ gotCurrent' = FALSE
  /\ UNCHANGED <<mounted, emails, selectedEmail, db, dbOps, emailsFor, dialogVars>>
  /\ UNCHANGED nonViewerVars

\* line 441: a card of the rendered list is clicked; effect at 201-242 re-runs
\* when selectedEmail?.id changed, effects at 245-265 and 268-272 run
SelectEmail(i) ==
  /\ mounted
  /\ ~loading
  /\ i \in 1..Len(emails)
  /\ selectedEmail = NoEmail
  /\ Len(replyFetches) < MaxReplyFetches
  /\ selectedEmail' = emails[i]
  /\ LET s == SubscriptionEffect(channels, hasCleanup, entityType, entityId, emails[i].id)
     IN /\ channels' = s.channels
        /\ hasCleanup' = s.hasCleanup
  /\ LET r == RepliesEffect(emails[i], replies, loadingReplies, replyFetches)
     IN /\ replies' = r.replies
        /\ loadingReplies' = r.loadingReplies
        /\ replyFetches' = r.replyFetches
  /\ showTechnicalDetails' = ResetEffect(emails[i], showTechnicalDetails)
  /\ lastDialogOp' = "opened"
  /\ notifQ' = <<>>
  /\ UNCHANGED <<mounted, entityType, entityId, emails, loading, db, dbOps, fetches,
                 emailsFor, gotCurrent, events>>
  /\ UNCHANGED nonViewerVars

\* line 473: the dialog's onOpenChange
CloseDialog ==
  /\ mounted
  /\ ~loading
  /\ Len(emails) > 0
  /\ selectedEmail # NoEmail
  /\ selectedEmail' = NoEmail
  /\ LET s == SubscriptionEffect(channels, hasCleanup, entityType, entityId, NULL)
     IN /\ channels' = s.channels
        /\ hasCleanup' = s.hasCleanup
  /\ LET r == RepliesEffect(NoEmail, replies, loadingReplies, replyFetches)
     IN /\ replies' = r.replies
        /\ loadingReplies' = r.loadingReplies
        /\ replyFetches' = r.replyFetches
  /\ showTechnicalDetails' = ResetEffect(NoEmail, showTechnicalDetails)
  /\ lastDialogOp' = IF showTechnicalDetails THEN "collapsed" ELSE "closed"
  /\ notifQ' = <<>>
  /\ UNCHANGED <<mounted, entityType, entityId, emails, loading, db, dbOps, fetches,
                 emailsFor, gotCurrent, events>>
  /\ UNCHANGED nonViewerVars

\* the viewer is removed from the page: the effect's cleanup runs (239-241)
Unmount ==
  /\ mounted
  /\ mounted' = FALSE
  /\ channels' = RemoveChannel(channels, hasCleanup)
  /\ hasCleanup' = FALSE
  /\ notifQ' = <<>>
  /\ fetches' = <<>>
  /\ replyFetches' = <<>>
  /\ UNCHANGED <<entityType, entityId, emails, loading, selectedEmail, db, dbOps,
                 emailsFor, gotCurrent, events, showTechnicalDetails, replies,
                 loadingReplies, lastDialogOp>>
  /\ UNCHANGED nonViewerVars

\* the viewer is put on the page again with the same props: a fresh instance
\* (lines 160-165) whose effects run (194-198, 201-242)
Mount ==
  /\ ~mounted
  /\ events < MaxEvents
  /\ events' = events + 1
  /\ mounted' = TRUE
  /\ emails' = <<>>
  /\ loading' = TRUE
  /\ selectedEmail' = NoEmail
  /\ fetches' = IF entityId # "" THEN IssueFetch(<<>>, entityType, entityId) ELSE <<>>
  /\ LET s == SubscriptionEffect(channels, hasCleanup, entityType, entityId, NULL)
     IN /\ channels' = s.channels
        /\ hasCleanup' = s.hasCleanup
  /\ notifQ' = <<>>
  /\ emailsFor' = <<>>
  /\ gotCurrent' = FALSE
  /\ showTechnicalDetails' = FALSE
  /\ replies' = <<>>
  /\ loadingReplies' = FALSE
  /\ replyFetches' = <<>>
  /\ lastDialogOp' = "closed"
  /\ UNCHANGED <<entityType, entityId, db, dbOps>>
  /\ UNCHANGED nonViewerVars

\* lines 252-260: the email_replies query of an earlier run of the replies
\* effect answers, with the rows or with an error
ReplyComplete(i, ok) ==
  /\ mounted
  /\ i \in 1..Len(replyFetches)
  /\ replies' = IF ok THEN RepliesOf(replyFetches[i]) ELSE <<>>
  /\ loadingReplies' = FALSE
  /\ replyFetches' = RemoveAt(replyFetches, i)
  /\ UNCHANGED <<mounted, entityType, entityId, emails, loading, selectedEmail, db, dbOps,
                 fetches, channels, hasCleanup, notifQ, emailsFor, gotCurrent, events,
                 showTechnicalDetails, lastDialogOp>>
  /\ UNCHANGED nonViewerVars

DbInsertAny == \E id \in EmailIds, en \in Entities : DbInsert(id, en[1], en[2])
DbUpdateAny ==
  \E id \in EmailIds :
    \/ DbUpdate(id, "status", "delivered")
    \/ \E en \in Entities : DbUpdate(id, EntityColumn(en[1]), en[2])
    \/ \E en \in Entities : DbUpdate(id, EntityColumn(en[1]), NULL)
ServerAnswerAny == \E i \in 1..Len(fetches), ok \in BOOLEAN : ServerAnswer(i, ok)
FetchCompleteAny == \E i \in 1..Len(fetches) : FetchComplete(i)
ChangeEntityAny == \E p \in Props : ChangeEntity(p[1], p[2])
SelectEmailAny == \E i \in 1..Len(emails) : SelectEmail(i)

\* the viewer with fixed props
NextFixed ==
  \/ DbInsertAny
  \/ DbUpdateAny
  \/ ServerAnswerAny
  \/ FetchCompleteAny
  \/ Notify
  \/ SelectEmailAny
  \/ CloseDialog

SpecFixed == InitViewer /\ [][NextFixed]_vars

NextViewer ==
  \/ NextFixed
  \/ ChangeEntityAny
  \/ Unmount
  \/ Mount

SpecViewer == InitViewer /\ [][NextViewer]_vars

\* ================================================================ DashboardCustomizeModal
MaxModalOps == 2
MaxOrderLen == 2
MaxDragIndex == 1

W(k, v, sz) == [key |-> k, visible |-> v, size |-> sz]

\* lines 722-760 (label and icon are carried along unchanged and left out)
DEFAULT_WIDGETS == <<
  W("leads", TRUE, "small"), W("contacts", TRUE, "small"), W("deals", TRUE, "small"),
  W("actionItems", TRUE, "small"), W("quickActions", TRUE, "medium"),
  W("upcomingMeetings", TRUE, "medium"), W("taskReminders", TRUE, "medium"),
  W("recentActivities", TRUE, "medium"), W("performance", TRUE, "large"),
  W("leadStatus", TRUE, "large"),
  W("salesTarget", FALSE, "medium"), W("revenueChart", FALSE, "large"),
  W("pipelineValue", FALSE, "small"), W("conversionRate", FALSE, "small"),
  W("dealForecast", FALSE, "large"),
  W("emailStats", FALSE, "medium"), W("callLog", FALSE, "medium"),
  W("teamActivity", FALSE, "medium"), W("completedTasks", FALSE, "small"),
  W("overdueItems", FALSE, "small"), W("taskProgress", FALSE, "medium"),
  W("topDeals", FALSE, "medium"), W("regionStats", FALSE, "large"),
  W("geoDistribution", FALSE, "large"), W("leadSources", FALSE, "medium"),
  W("accountHealth", FALSE, "medium"), W("customerRetention", FALSE, "small"),
  W("winLossRatio", FALSE, "small"), W("salesVelocity", FALSE, "medium"),
  W("growthTrend", FALSE, "large") >>

\* line 708
WidgetSize == {"xs", "small", "medium", "large", "xl"}

Range(f) == {f[i] : i \in DOMAIN f}
Keys(ws) == [i \in 1..Len(ws) |-> ws[i].key]
CatalogKeys == Range(Keys(DEFAULT_WIDGETS))

\* DEFAULT_WIDGETS.find(w => w.key === key), for a key of the catalog
DefaultWidget(key) ==
  DEFAULT_WIDGETS[CHOOSE i \in 1..Len(DEFAULT_WIDGETS) :
                    /\ DEFAULT_WIDGETS[i].key = key
                    /\ \A j \in 1..(i - 1) : DEFAULT_WIDGETS[j].key # key]

\* lines 791-795 and 802-806: { ...w, visible: visibleWidgets.includes(key),
\* size: widgetSizes[key] || w.size }
FromProps(w, visible, sizes) ==
  [w EXCEPT !.visible = (w.key \in Range(visible)),
            !.size = IF w.key \in DOMAIN sizes THEN sizes[w.key] ELSE w.size]

\* lines 788-797: the widgets of the saved order
RECURSIVE InSavedOrder(_, _, _)
InSavedOrder(order, visible, sizes) ==
  IF order = <<>> THEN <<>>
  ELSE LET key == Head(order)
           rest == InSavedOrder(Tail(order), visible, sizes)
       IN IF key \in CatalogKeys
          THEN <<FromProps(DefaultWidget(key), visible, sizes)>> \o rest
          ELSE rest

\* lines 800-808: the widgets missing from the saved order
RECURSIVE AddMissing(_, _, _, _)
AddMissing(orderedWidgets, i, visible, sizes) ==
  IF i > Len(DEFAULT_WIDGETS) THEN orderedWidgets
  ELSE LET w == DEFAULT_WIDGETS[i]
       IN IF w.key \in Range(Keys(orderedWidgets))
          THEN AddMissing(orderedWidgets, i + 1, visible, sizes)
          ELSE AddMissing(Append(orderedWidgets, FromProps(w, visible, sizes)),
                          i + 1, visible, sizes)

\* an init effect that ignores the saved order
InitWidgetsCatalogOrder(order, visible, sizes) == AddMissing(<<>>, 1, visible, sizes)

\* lines 783-811: the init effect
InitWidgets(order, visible, sizes) ==
  AddMissing(InSavedOrder(order, visible, sizes), 1, visible, sizes)

\* a switch that can only turn a widget on
toggleWidgetOn(prev, key) ==
  [i \in 1..Len(prev) |->
     IF prev[i].key = key THEN [prev[i] EXCEPT !.visible = TRUE] ELSE prev[i]]

\* lines 813-817
toggleWidget(prev, key) ==
  [i \in 1..Len(prev) |->
     IF prev[i].key = key THEN [prev[i] EXCEPT !.visible = ~prev[i].visible] ELSE prev[i]]

\* lines 819-823
changeSize(prev, key, size) ==
  [i \in 1..Len(prev) |->
     IF prev[i].key = key THEN [prev[i] EXCEPT !.size = size] ELSE prev[i]]

\* items.splice(index, 1) and items.splice(index, 0, item), index counted from 0
SpliceOut(items, index) ==
  [j \in 1..(Len(items) - 1) |-> IF j <= index THEN items[j] ELSE items[j + 1]]
SpliceIn(items, index, item) ==
  LET at == IF index > Len(items) THEN Len(items) ELSE index
  IN SubSeq(items, 1, at) \o <<item>> \o SubSeq(items, at + 1, Len(items))

\* a drop that exchanges the two positions
handleDragEndSwap(ws, source, destination) ==
  IF destination = -1 THEN ws
  ELSE [i \in 1..Len(ws) |->
          IF i = source + 1 THEN ws[destination + 1]
          ELSE IF i = destination + 1 THEN ws[source + 1] ELSE ws[i]]

\* lines 825-833; destination -1 stands for a drop outside the list (null)
handleDragEnd(ws, source, destination) ==
  IF destination = -1 THEN ws
  ELSE SpliceIn(SpliceOut(ws, source), destination, ws[source + 1])

\* a save that reports the visible keys in catalog order
SaveArgsCatalogOrder(ws) ==
  [visible |-> Keys(SelectSeq(DEFAULT_WIDGETS,
                              LAMBDA d : \E i \in 1..Len(ws) : ws[i].key = d.key /\ ws[i].visible)),
   order |-> Keys(ws),
   sizes |-> [k \in Range(Keys(ws)) |->
                ws[CHOOSE i \in 1..Len(ws) : ws[i].key = k].size]]

\* lines 835-843: the arguments handleSave passes to onSave
SaveArgs(ws) ==
  [visible |-> Keys(SelectSeq(ws, LAMBDA w : w.visible)),
   order |-> Keys(ws),
   sizes |-> [k \in Range(Keys(ws)) |->
                ws[CHOOSE i \in 1..Len(ws) :
                     ws[i].key = k /\ \A j \in (i + 1)..Len(ws) : ws[j].key # k].size]]

\* lines 845-847
ResetWidgets == [i \in 1..Len(DEFAULT_WIDGETS) |-> [DEFAULT_WIDGETS[i] EXCEPT !.visible = TRUE]]

\* ---- the props the dialog is opened with
OrderKeys == {"leads", "growthTrend", "removedWidget"}
OrderInputs == UNION {[1..n -> OrderKeys] : n \in 0..MaxOrderLen}
VisibleInputs == {<<"growthTrend">>, <<"leads", "removedWidget">>}
SizesInputs == {<<>>, [k \in {"leads"} |-> "xl"]}
\* the rows the user acts on and the positions dragged from and to
ActedKeys == {"leads", "growthTrend"}
SizeInputs == {"xs", "large"}
DragIndexes(ws) == {i \in (0..MaxDragIndex) \cup {Len(ws) - 1} : i < Len(ws)}

InitModal ==
  /\ widgetOrder \in OrderInputs
  /\ visibleWidgets \in VisibleInputs
  /\ widgetSizes \in SizesInputs
  /\ widgets = InitWidgets(widgetOrder, visibleWidgets, widgetSizes)
  /\ saved = <<>>
  /\ lastOp = [NoOp EXCEPT !.op = "init"]
  /\ prevWidgets = <<>>
  /\ modalOps = 0
  /\ IdleViewer
  /\ IdleCard
  /\ IdleBounce

Ran(op) ==
  /\ modalOps < MaxModalOps
  /\ modalOps' = modalOps + 1
  /\ lastOp' = op
  /\ prevWidgets' = widgets
  /\ UNCHANGED nonModalVars

ToggleWidget(key) ==
  /\ Ran([NoOp EXCEPT !.op = "toggleWidget", !.key = key])
  /\ widgets' = toggleWidget(widgets, key)
  /\ UNCHANGED <<widgetOrder, visibleWidgets, widgetSizes, saved>>

ChangeSize(key, size) ==
  /\ Ran([NoOp EXCEPT !.op = "changeSize", !.key = key, !.size = size])
  /\ widgets' = changeSize(widgets, key, size)
  /\ UNCHANGED <<widgetOrder, visibleWidgets, widgetSizes, saved>>

HandleDragEnd(source, destination) ==
  /\ Ran([NoOp EXCEPT !.op = "handleDragEnd", !.source = source, !.destination = destination])
  /\ widgets' = handleDragEnd(widgets, source, destination)
  /\ UNCHANGED <<widgetOrder, visibleWidgets, widgetSizes, saved>>

HandleSave ==
  /\ Ran([NoOp EXCEPT !.op = "handleSave"])
  /\ saved' = Append(saved, SaveArgs(widgets))
  /\ UNCHANGED <<widgetOrder, visibleWidgets, widgetSizes, widgets>>

HandleReset ==
  /\ Ran([NoOp EXCEPT !.op = "handleReset"])
  /\ widgets' = ResetWidgets
  /\ UNCHANGED <<widgetOrder, visibleWidgets, widgetSizes, saved>>

\* the open prop changes: the init effect runs again (line 811)
Reopen ==
  /\ Ran([NoOp EXCEPT !.op = "init"])
  /\ widgets' = InitWidgets(widgetOrder, visibleWidgets, widgetSizes)
  /\ UNCHANGED <<widgetOrder, visibleWidgets, widgetSizes, saved>>

\* the parent stores what onSave received and passes it back as props: the
\* init effect runs again (line 811)
PropsFromSaved ==
  /\ saved # <<>>
  /\ Ran([NoOp EXCEPT !.op = "init"])
  /\ LET s == saved[Len(saved)]
     IN /\ widgetOrder' = s.order
        /\ visibleWidgets' = s.visible
        /\ widgetSizes' = s.sizes
        /\ widgets' = InitWidgets(s.order, s.visible, s.sizes)
  /\ UNCHANGED saved

ToggleWidgetAny == \E key \in ActedKeys : ToggleWidget(key)
ChangeSizeAny == \E key \in ActedKeys, size \in SizeInputs : ChangeSize(key, size)
HandleDragEndAny ==
  \E source \in DragIndexes(widgets), destination \in DragIndexes(widgets) \cup {-1} :
    HandleDragEnd(source, destination)

NextModal ==
  \/ ToggleWidgetAny
  \/ ChangeSizeAny
  \/ HandleDragEndAny
  \/ HandleSave
  \/ HandleReset
  \/ Reopen
  \/ PropsFromSaved

SpecModal == InitModal /\ [][NextModal]_vars

\* ================================================================ one card of the list
MaxTicks == 2

\* JavaScript truthiness of a string | null and of a number | null
Truthy(str) == str # NULL /\ str # ""
TruthyCount(n) == n # NullCount /\ n # 0

\* an explanation whose fallback branch was copied from the soft one
getBounceExplanationSoftFallback(bounceType) ==
  IF bounceType = "hard"
  THEN [title |-> "Delivery Failed", subtitle |-> "Email address doesn't exist",
        Icon |-> "MailX", severity |-> "error"]
  ELSE IF bounceType = "soft"
  THEN [title |-> "Delivery Delayed", subtitle |-> "Temporary delivery issue",
        Icon |-> "AlertTriangle", severity |-> "warning"]
  ELSE [title |-> "Delivery Failed", subtitle |-> "Unable to deliver email",
        Icon |-> "XCircle", severity |-> "warning"]

\* lines 80-106 (the description text is left out)
getBounceExplanation(bounceType) ==
  IF bounceType = "hard"
  THEN [title |-> "Delivery Failed", subtitle |-> "Email address doesn't exist",
        Icon |-> "MailX", severity |-> "error"]
  ELSE IF bounceType = "soft"
  THEN [title |-> "Delivery Delayed", subtitle |-> "Temporary delivery issue",
        Icon |-> "AlertTriangle", severity |-> "warning"]
  ELSE [title |-> "Delivery Failed", subtitle |-> "Unable to deliver email",
        Icon |-> "XCircle", severity |-> "error"]

\* line 279
VerifyWindow == 60000
isRecentlySent(e, at) == at - e.sent_at < VerifyWindow

\* a badge that shows Verifying without looking at bounce_type
getStatusBadgeNoBounceTest(e, at) ==
  IF e.status = "sent" /\ isRecentlySent(e, at)
  THEN [badge |-> "verifying", title |-> "Verifying..."]
  ELSE IF e.status = "bounced" \/ Truthy(e.bounce_type)
  THEN [badge |-> "bounce", title |-> getBounceExplanation(e.bounce_type).title]
  ELSE [badge |-> "sent", title |-> "Sent"]

\* lines 274-351
getStatusBadge(e, at) ==
  IF e.status = "sent" /\ isRecentlySent(e, at) /\ ~Truthy(e.bounce_type)
  THEN [badge |-> "verifying", title |-> "Verifying..."]
  ELSE IF e.status = "bounced" \/ Truthy(e.bounce_type)
  THEN [badge |-> "bounce", title |-> getBounceExplanation(e.bounce_type).title]
  ELSE IF e.status = "replied" \/ (TruthyCount(e.reply_count) /\ e.reply_count > 0)
  THEN [badge |-> "replied", title |-> "Replied"]
  ELSE IF e.status = "opened"
  THEN IF e.is_valid_open = "false"
       THEN [badge |-> "suspicious", title |-> "Suspicious"]
       ELSE [badge |-> "opened", title |-> "Opened"]
  ELSE IF e.status = "delivered"
  THEN [badge |-> "delivered", title |-> "Delivered"]
  ELSE [badge |-> "sent", title |-> "Sent"]

\* lines 353-410
getOpenCountDisplay(e) ==
  IF e.status = "bounced" \/ Truthy(e.bounce_type)
  THEN [badge |-> "bounce", title |-> getBounceExplanation(e.bounce_type).title]
  ELSE LET uniqueOpens == IF TruthyCount(e.unique_opens) THEN e.unique_opens ELSE 0
           totalOpens == IF TruthyCount(e.open_count) THEN e.open_count ELSE 0
       IN IF totalOpens = 0 THEN [badge |-> "opens", title |-> "0 opens"]
          ELSE IF e.is_valid_open = "false" THEN [badge |-> "opens", title |-> "suspicious"]
          ELSE IF uniqueOpens > 0 THEN [badge |-> "opens", title |-> "unique"]
          ELSE [badge |-> "opens", title |-> "opens"]

\* the rows a card is rendered for
CardInputs ==
  [status : {"sent", "delivered", "opened", "replied", "bounced"},
   bounce_type : {NULL, "", "hard", "soft", "blocked"},
   reply_count : {NullCount, 0, 2},
   open_count : {NullCount, 3},
   unique_opens : {0, 2},
   is_valid_open : {NULL, "true", "false"},
   sent_at : {0}]

InitCard ==
  /\ email \in CardInputs
  /\ now = email.sent_at
  /\ badge = NotRendered
  /\ openDisplay = NotRendered
  /\ ticks = 0
  /\ IdleViewer
  /\ IdleModal
  /\ IdleBounce

\* lines 435-469: the list is rendered
RenderCard ==
  /\ badge' = getStatusBadge(email, now)
  /\ openDisplay' = getOpenCountDisplay(email)
  /\ UNCHANGED <<email, now, ticks>>
  /\ UNCHANGED nonCardVars

\* time passes
Tick(d) ==
  /\ ticks < MaxTicks
  /\ ticks' = ticks + 1
  /\ now' = now + d
  /\ UNCHANGED <<email, badge, openDisplay>>
  /\ UNCHANGED nonCardVars

TickAny == \E d \in {1, VerifyWindow - 1} : Tick(d)

NextCard ==
  \/ RenderCard
  \/ TickAny

SpecCard == InitCard /\ [][NextCard]_vars

\* ================================================================ cleanBounceReason
\* texts are sequences of one-character strings
MaxPieces == 3

isSpace(c) == c \in {" ", "\n"}
isDigit(c) == c \in {"0", "1", "2", "3", "4", "5", "6", "7", "8", "9"}
\* the i flag of the patterns: letters compare in lower case
Lower(c) ==
  CASE c = "A" -> "a" [] c = "B" -> "b" [] c = "C" -> "c" [] c = "D" -> "d"
    [] c = "E" -> "e" [] c = "F" -> "f" [] c = "G" -> "g" [] c = "H" -> "h"
    [] c = "I" -> "i" [] c = "J" -> "j" [] c = "K" -> "k" [] c = "L" -> "l"
    [] c = "M" -> "m" [] c = "N" -> "n" [] c = "O" -> "o" [] c = "P" -> "p"
    [] c = "Q" -> "q" [] c = "R" -> "r" [] c = "S" -> "s" [] c = "T" -> "t"
    [] c = "U" -> "u" [] c = "V" -> "v" [] c = "W" -> "w" [] c = "X" -> "x"
    [] c = "Y" -> "y" [] c = "Z" -> "z"
    [] OTHER -> c

\* the characters of a marked text that are kept
Kept(marked) ==
  LET kept == SelectSeq(marked, LAMBDA m : ~m.drop)
  IN [i \in 1..Len(kept) |-> kept[i].c]

\* reason.replace(/<[^>]*>/g, ' '): a match runs from a "<" to the first ">"
\* after it, matches are found left to right, and each becomes one space
ReplaceTags(s) ==
  LET opens == {p \in 1..Len(s) : s[p] = "<"}
      closes == {q \in 1..Len(s) : s[q] = ">"}
      inTag(i) == \E p \in opens :
                    /\ p <= i
                    /\ \A k \in closes : ~(p <= k /\ k < i)
                    /\ \E q \in closes : q >= i /\ q > p
  IN Kept([i \in 1..Len(s) |->
             IF inTag(i)
             THEN [c |-> " ", drop |-> s[i] # ">"]
             ELSE [c |-> s[i], drop |-> FALSE]])

RECURSIVE AfterSpaces(_, _)
AfterSpaces(s, i) == IF i <= Len(s) /\ isSpace(s[i]) THEN AfterSpaces(s, i + 1) ELSE i
RECURSIVE BeforeSpaces(_, _)
BeforeSpaces(s, i) == IF i >= 1 /\ isSpace(s[i]) THEN BeforeSpaces(s, i - 1) ELSE i

\* .replace(/\s+/g, ' ')
CollapseSpaces(s) ==
  Kept([i \in 1..Len(s) |->
          [c |-> IF isSpace(s[i]) THEN " " ELSE s[i],
           drop |-> isSpace(s[i]) /\ i > 1 /\ isSpace(s[i - 1])]])

\* .trim()
Trim(s) == SubSeq(s, AfterSpaces(s, 1), BeforeSpaces(s, Len(s)))

\* line 113
Cleaned(r) == Trim(CollapseSpaces(ReplaceTags(r)))

\* the literal pat (given in lower case) occurs in s at position i, ignoring case
OccursAt(s, pat, i) ==
  /\ i + Len(pat) - 1 <= Len(s)
  /\ \A k \in 1..Len(pat) : Lower(s[i + k - 1]) = pat[k]
Contains(s, pat) == \E i \in 1..Len(s) : OccursAt(s, pat, i)

DeliveryWord == <<"d", "e", "l", "i", "v", "e", "r", "y">>
FailedWord == <<"f", "a", "i", "l", "e", "d">>
ErrorCodeWords == <<"e", "r", "r", "o", "r", " ", "c", "o", "d", "e">>

\* lines 116-126, but /delivery.*failed/i
LiteralPatterns == {
  \* /the email account that you tried to reach does not exist/i
  <<"t", "h", "e", " ", "e", "m", "a", "i", "l", " ", "a", "c", "c", "o", "u", "n", "t", " ", "t", "h", "a", "t", " ", "y", "o", "u", " ", "t", "r", "i", "e", "d", " ", "t", "o", " ", "r", "e", "a", "c", "h", " ", "d", "o", "e", "s", " ", "n", "o", "t", " ", "e", "x", "i", "s", "t">>,
  \* /address rejected/i
  <<"a", "d", "d", "r", "e", "s", "s", " ", "r", "e", "j", "e", "c", "t", "e", "d">>,
  \* /user unknown/i
  <<"u", "s", "e", "r", " ", "u", "n", "k", "n", "o", "w", "n">>,
  \* /mailbox not found/i
  <<"m", "a", "i", "l", "b", "o", "x", " ", "n", "o", "t", " ", "f", "o", "u", "n", "d">>,
  \* /recipient rejected/i
  <<"r", "e", "c", "i", "p", "i", "e", "n", "t", " ", "r", "e", "j", "e", "c", "t", "e", "d">>,
  \* /no such user/i
  <<"n", "o", " ", "s", "u", "c", "h", " ", "u", "s", "e", "r">>,
  \* /invalid recipient/i
  <<"i", "n", "v", "a", "l", "i", "d", " ", "r", "e", "c", "i", "p", "i", "e", "n", "t">>,
  \* /undeliverable/i
  <<"u", "n", "d", "e", "l", "i", "v", "e", "r", "a", "b", "l", "e">> }

\* /delivery.*failed/i
MatchesDeliveryFailed(s) ==
  \E i \in 1..Len(s) :
    /\ OccursAt(s, DeliveryWord, i)
    /\ \E j \in (i + Len(DeliveryWord))..Len(s) :
         /\ OccursAt(s, FailedWord, j)
         /\ \A k \in (i + Len(DeliveryWord))..(j - 1) : s[k] # "\n"

\* lines 129-137: some pattern matches
MatchesPattern(s) == (\E pat \in LiteralPatterns : Contains(s, pat)) \/ MatchesDeliveryFailed(s)

\* the digits of s from position i on: the position after the last of them
RECURSIVE AfterDigits(_, _)
AfterDigits(s, i) == IF i <= Len(s) /\ isDigit(s[i]) THEN AfterDigits(s, i + 1) ELSE i
\* /^\d{3}\s+\d+\.\d+\.\d+/
StartsWithStatusCode(s) ==
  /\ Len(s) >= 3
  /\ \A i \in 1..3 : isDigit(s[i])
  /\ LET a == AfterSpaces(s, 4)
         b == AfterDigits(s, a)
         c == AfterDigits(s, b + 1)
         d == AfterDigits(s, c + 1)
     IN /\ a > 4
        /\ b > a
        /\ b <= Len(s) /\ s[b] = "."
        /\ c > b + 1
        /\ c <= Len(s) /\ s[c] = "."
        /\ d > c + 1

\* line 140
HasErrorCode(s) == StartsWithStatusCode(s) \/ Contains(s, ErrorCodeWords)

\* line 148: cleaned.split(/[.!?]/)[0]
FirstSentence(s) ==
  LET stops == {i \in 1..Len(s) : s[i] \in {".", "!", "?"}}
  IN IF stops = {} THEN s
     ELSE SubSeq(s, 1, (CHOOSE i \in stops : \A j \in stops : i <= j) - 1)

\* lines 133 and 142; a fixed message is held as one element
NOT_FOUND_SUMMARY == <<"The recipient's email address was not found or is invalid.">>
REJECTED_SUMMARY == <<"The email server rejected the message.">>

\* line 149
MinSentence == 10
MaxSentence == 200

\* a cleanup that looks for error codes before the known patterns
cleanBounceReasonCodeFirst(r) ==
  IF r = NullStr \/ r = <<>> THEN [summary |-> <<>>, technical |-> NullStr]
  ELSE LET cleaned == Cleaned(r)
           firstSentence == FirstSentence(cleaned)
       IN IF HasErrorCode(cleaned)
          THEN [summary |-> REJECTED_SUMMARY, technical |-> cleaned]
          ELSE IF MatchesPattern(cleaned)
          THEN [summary |-> NOT_FOUND_SUMMARY, technical |-> cleaned]
          ELSE IF firstSentence # <<>> /\ Len(firstSentence) > MinSentence
                  /\ Len(firstSentence) < MaxSentence
          THEN [summary |-> firstSentence \o <<".">>,
                technical |-> IF cleaned # firstSentence \o <<".">> THEN cleaned ELSE NullStr]
          ELSE [summary |-> cleaned, technical |-> NullStr]

\* lines 109-157
cleanBounceReason(r) ==
  IF r = NullStr \/ r = <<>> THEN [summary |-> <<>>, technical |-> NullStr]
  ELSE LET cleaned == Cleaned(r)
           firstSentence == FirstSentence(cleaned)
       IN IF MatchesPattern(cleaned)
          THEN [summary |-> NOT_FOUND_SUMMARY, technical |-> cleaned]
          ELSE IF HasErrorCode(cleaned)
          THEN [summary |-> REJECTED_SUMMARY, technical |-> cleaned]
          ELSE IF firstSentence # <<>> /\ Len(firstSentence) > MinSentence
                  /\ Len(firstSentence) < MaxSentence
          THEN [summary |-> firstSentence \o <<".">>,
                technical |-> IF cleaned # firstSentence \o <<".">> THEN cleaned ELSE NullStr]
          ELSE [summary |-> cleaned, technical |-> NullStr]

\* ---- the bounce reasons of the model: up to MaxPieces pieces in a row
LongRun == [i \in 1..189 |-> "x"]
Pieces == {
  <<"<", "b", ">">>,
  <<" ">>,
  <<"\n">>,
  <<"U", "s", "e", "r", " ", "U", "n", "k", "n", "o", "w", "n">>,
  <<"5", "5", "0", " ", "5", ".", "1", ".", "1">>,
  <<"E", "r", "r", "o", "r", " ", "C", "o", "d", "e">>,
  <<"a", "b", "c", "d", "e", "f", "g", "h", "i", "j">>,
  <<"k">>,
  <<".">>,
  <<"<">>,
  <<"d", "e", "l", "i", "v", "e", "r", "y">>,
  <<"f", "a", "i", "l", "e", "d">>,
  LongRun }

RECURSIVE Joined(_)
Joined(ps) == IF ps = <<>> THEN <<>> ELSE Head(ps) \o Joined(Tail(ps))
Reasons == {NullStr} \cup {Joined(ps) : ps \in UNION {[1..n -> Pieces] : n \in 0..MaxPieces}}

InitBounce ==
  /\ reason \in Reasons
  /\ cleanedReason = NoResult
  /\ IdleViewer
  /\ IdleModal
  /\ IdleCard

\* lines 530-531: the bounce panel of the dialog is rendered
RenderBounce ==
  /\ cleanedReason' = [summary |-> cleanBounceReason(reason).summary,
                       technical |-> cleanBounceReason(reason).technical,
                       rendered |-> TRUE]
  /\ UNCHANGED reason
  /\ UNCHANGED nonBounceVars

NextBounce == RenderBounce

SpecBounce == InitBounce /\ [][NextBounce]_vars

\* ================================================================ the email dialog
\* lines 529-531, 574-575: the trigger of the technical-details collapsible
\* is clicked; it is rendered for a selected email with a bounce_type whose
\* cleaned reason has technical text
ToggleTechnicalDetails ==
  /\ mounted
  /\ selectedEmail # NoEmail
  /\ Truthy(selectedEmail.bounce_type)
  /\ LET technical == cleanBounceReason(selectedEmail.bounce_reason).technical
     IN technical # NullStr /\ technical # <<>>
  /\ showTechnicalDetails' = ~showTechnicalDetails
  /\ UNCHANGED <<mounted, entityType, entityId, emails, loading, selectedEmail, db, dbOps,
                 fetches, channels, hasCleanup, notifQ, emailsFor, gotCurrent, events,
                 replies, loadingReplies, replyFetches, lastDialogOp>>
  /\ UNCHANGED nonViewerVars

\* the bounce reason a bounce notification writes
BounceReasonInput == <<"U", "s", "e", "r", " ", "U", "n", "k", "n", "o", "w", "n">>
DbReplyAny == \E id \in EmailIds : DbUpdate(id, "reply_count", 1)
DbBounceAny ==
  \E id \in EmailIds :
    \/ DbUpdate(id, "bounce_type", "hard")
    \/ DbUpdate(id, "bounce_reason", BounceReasonInput)
ReplyCompleteAny == \E i \in 1..Len(replyFetches), ok \in BOOLEAN : ReplyComplete(i, ok)

\* the viewer with fixed props, emails that are replied to and that bounce,
\* and the dialog's controls
NextDialog ==
  \/ NextFixed
  \/ DbReplyAny
  \/ DbBounceAny
  \/ ReplyCompleteAny
  \/ ToggleTechnicalDetails

SpecDialog == InitViewer /\ [][NextDialog]_vars

\* ================================================================ claims

\* ---- C1: with fixed props, every listed email belongs to the entity: the
\* column selected by entityType holds entityId
C1_ListedEmailsBelong ==
  mounted => \A i \in 1..Len(emails) : emails[i][EntityColumn(entityType)] = entityId

\* ---- C2: once no fetchEmails request is outstanding (and a result for the
\* current entity has arrived), the list holds the rows fetched for the
\* current entity
C2_RowsOfCurrentEntity ==
  (mounted /\ fetches = <<>> /\ gotCurrent) => emailsFor = <<entityType, entityId>>

\* ---- C9: at most one channel is subscribed at a time, none while entityId
\* is empty and none after unmount
C9_OneChannel ==
  /\ Len(channels) <= 1
  /\ (entityId = "" => channels = <<>>)
  /\ (~mounted => channels = <<>>)

\* an email was selected after an environment event: the effect has re-run
\* and the one channel is the one its last run created
C9_Witness ==
  /\ mounted
  /\ events >= 2
  /\ selectedEmail # NoEmail
  /\ Len(channels) = 1
  /\ channels[1].selId = selectedEmail.id

\* ---- C4: handleDragEnd with a destination moves the widget at source.index
\* to destination.index, the others keep their order and no widget changes;
\* without a destination the list is unchanged
C4_DragMoves ==
  lastOp.op = "handleDragEnd" =>
    IF lastOp.destination = -1
    THEN widgets = prevWidgets
    ELSE /\ Len(widgets) = Len(prevWidgets)
         /\ widgets[lastOp.destination + 1] = prevWidgets[lastOp.source + 1]
         /\ RemoveAt(widgets, lastOp.destination + 1) = RemoveAt(prevWidgets, lastOp.source + 1)

C4_Witness ==
  /\ lastOp.op = "handleDragEnd"
  /\ lastOp.destination > lastOp.source + 1
  /\ lastOp.source > 0
  /\ widgets # prevWidgets

\* ---- C5: toggleWidget changes only the visible flag of the widget with the
\* key, changeSize only its size, neither changes the order, and toggling the
\* same key twice restores the list
C5_ToggleAndSizeFrame ==
  /\ lastOp.op \in {"toggleWidget", "changeSize"} =>
       /\ Len(widgets) = Len(prevWidgets)
       /\ \A i \in 1..Len(widgets) :
            /\ widgets[i].key = prevWidgets[i].key
            /\ prevWidgets[i].key # lastOp.key => widgets[i] = prevWidgets[i]
            /\ lastOp.op = "toggleWidget" =>
                 /\ widgets[i].size = prevWidgets[i].size
                 /\ prevWidgets[i].key = lastOp.key =>
                      widgets[i].visible = ~prevWidgets[i].visible
            /\ lastOp.op = "changeSize" =>
                 /\ widgets[i].visible = prevWidgets[i].visible
                 /\ prevWidgets[i].key = lastOp.key => widgets[i].size = lastOp.size
  /\ \A key \in ActedKeys : toggleWidget(toggleWidget(widgets, key), key) = widgets

C5_Witness ==
  /\ lastOp.op = "toggleWidget"
  /\ \E i \in 1..Len(widgets) : prevWidgets[i].key = lastOp.key /\ prevWidgets[i].visible
  /\ Keys(widgets) # Keys(DEFAULT_WIDGETS)

\* ---- C6: handleSave calls onSave once, with order the keys in list order,
\* visible the keys whose flag is set, in list order, and sizes the current
\* size of every key of order
RECURSIVE IsSubsequence(_, _)
IsSubsequence(a, b) ==
  IF a = <<>> THEN TRUE
  ELSE IF b = <<>> THEN FALSE
  ELSE IF Head(a) = Head(b) THEN IsSubsequence(Tail(a), Tail(b))
  ELSE IsSubsequence(a, Tail(b))

C6_SavedTriple ==
  /\ [](lastOp.op = "handleSave" =>
          /\ saved # <<>>
          /\ LET s == saved[Len(saved)]
             IN /\ Len(s.order) = Len(widgets)
                /\ \A i \in 1..Len(widgets) : s.order[i] = widgets[i].key
                /\ Range(s.visible) = {widgets[i].key : i \in {j \in 1..Len(widgets) : widgets[j].visible}}
                /\ Len(s.visible) = Cardinality({j \in 1..Len(widgets) : widgets[j].visible})
                /\ IsSubsequence(s.visible, s.order)
                /\ DOMAIN s.sizes = Range(s.order)
                /\ \A i \in 1..Len(widgets) : s.sizes[widgets[i].key] = widgets[i].size)
  /\ [][Len(saved') = IF lastOp'.op = "handleSave" /\ modalOps' # modalOps
                      THEN Len(saved) + 1 ELSE Len(saved)]_vars

C6_Witness ==
  /\ lastOp.op = "handleSave"
  /\ Keys(widgets) # Keys(DEFAULT_WIDGETS)
  /\ \E i \in 1..Len(widgets) : widgets[i].visible
  /\ \E i \in 1..Len(widgets) : ~widgets[i].visible
  /\ Len(saved) = 1

\* ---- C3: the widget list holds each key of DEFAULT_WIDGETS exactly once
C3_FixedCatalog ==
  /\ Len(widgets) = Len(DEFAULT_WIDGETS)
  /\ Range(Keys(widgets)) = CatalogKeys

\* ---- C7: every email with status 'bounced' or a non-null bounce_type is
\* explained by getBounceExplanation as 'Delivery Failed' with severity error
\* or as 'Delivery Delayed' with severity warning, and a bounce badge shows
\* that title
C7_HardOrSoft ==
  (badge # NotRendered /\ (email.status = "bounced" \/ email.bounce_type # NULL)) =>
    LET bounceInfo == getBounceExplanation(email.bounce_type)
    IN /\ \/ (bounceInfo.title = "Delivery Failed" /\ bounceInfo.severity = "error")
          \/ (bounceInfo.title = "Delivery Delayed" /\ bounceInfo.severity = "warning")
       /\ bounceInfo.severity = "warning" <=> email.bounce_type = "soft"
       /\ badge.badge = "bounce" => badge.title = bounceInfo.title

C7_Witness ==
  /\ badge.badge = "bounce"
  /\ email.status = "bounced"
  /\ email.bounce_type = "blocked"
  /\ badge.title = "Delivery Failed"

\* ---- C8 as stated: an email with status 'bounced' or a non-null
\* bounce_type gets the bounce badge and the bounce title
C8_NonNullBounceShown ==
  (badge # NotRendered /\ (email.status = "bounced" \/ email.bounce_type # NULL)) =>
    /\ badge.badge = "bounce"
    /\ openDisplay.badge = "bounce"

\* ---- C8 as amended: an email with status 'bounced' or a non-empty
\* bounce_type gets the bounce badge and the bounce title, whatever its send
\* time, reply_count, open_count, unique_opens and is_valid_open
C8_TruthyBounceShown ==
  (badge # NotRendered /\ (email.status = "bounced" \/ Truthy(email.bounce_type))) =>
    /\ badge.badge = "bounce"
    /\ openDisplay.badge = "bounce"
    /\ badge.title = getBounceExplanation(email.bounce_type).title
    /\ openDisplay.title = getBounceExplanation(email.bounce_type).title

C8_Witness ==
  /\ badge.badge = "bounce"
  /\ openDisplay.badge = "bounce"
  /\ email.status = "sent"
  /\ now - email.sent_at < VerifyWindow
  /\ email.bounce_type = "soft"
  /\ email.reply_count = 2
  /\ email.open_count = 3
  /\ email.is_valid_open = "false"

\* ---- C10: a null or empty reason gives summary '' and technical null;
\* otherwise the first applicable rule of known pattern, error code, first
\* sentence of length 11 to 199, whole text decides the result; and technical,
\* when not null, is the reason without tags, with whitespace collapsed
C10_Rule(cleaned) ==
  IF MatchesPattern(cleaned) THEN "pattern"
  ELSE IF HasErrorCode(cleaned) THEN "code"
  ELSE IF Len(FirstSentence(cleaned)) \in 11..199 THEN "sentence"
  ELSE "fallback"

C10_Tidy(t) ==
  /\ ~\E i \in 1..Len(t) : t[i] = "<" /\ \E j \in (i + 1)..Len(t) : t[j] = ">"
  /\ \A i \in 1..Len(t) : isSpace(t[i]) => (t[i] = " " /\ i > 1 /\ i < Len(t) /\ t[i - 1] # " ")

C10_FirstApplicableRule ==
  cleanedReason.rendered =>
    LET summary == cleanedReason.summary
        technical == cleanedReason.technical
        cleaned == Cleaned(reason)
        rule == C10_Rule(cleaned)
    IN /\ (reason = NullStr \/ reason = <<>>) => (summary = <<>> /\ technical = NullStr)
       /\ (reason # NullStr /\ reason # <<>>) =>
            /\ rule = "pattern" => (summary = NOT_FOUND_SUMMARY /\ technical = cleaned)
            /\ rule = "code" => (summary = REJECTED_SUMMARY /\ technical = cleaned)
            /\ rule = "sentence" =>
                 /\ summary = FirstSentence(cleaned) \o <<".">>
                 /\ technical \in {cleaned, NullStr}
                 /\ technical = NullStr <=> cleaned = summary
            /\ rule = "fallback" => (summary = cleaned /\ technical = NullStr)
       /\ technical # NullStr => (technical = cleaned /\ C10_Tidy(technical))

C10_Witness ==
  /\ cleanedReason.rendered
  /\ cleanedReason.technical # NullStr
  /\ cleanedReason.summary = <<"a", "b", "c", "d", "e", "f", "g", "h", "i", "j", "k", ".">>
  /\ \E i \in 1..Len(reason) : reason[i] = "<"
  /\ Len(cleanedReason.technical) < Len(reason)

\* ---- C13: an email with status 'sent' and no bounce_type has the Verifying
\* badge on screen only while less than 60000 ms have passed since sent_at
C13_VerifyingOnlyWithinWindow ==
  badge.badge = "verifying" => now - email.sent_at < VerifyWindow

\* ---- C15: after the init effect the list holds the catalog widgets named
\* in widgetOrder, in that order, then the catalog widgets missing from
\* widgetOrder in catalog order; visible is membership in visibleWidgets and
\* size is widgetSizes[key] when present, else the catalog size
C15_InitFromProps ==
  lastOp.op = "init" =>
    LET named == SelectSeq(widgetOrder, LAMBDA k : k \in CatalogKeys)
        missing == SelectSeq(Keys(DEFAULT_WIDGETS), LAMBDA k : k \notin Range(widgetOrder))
    IN /\ Keys(widgets) = named \o missing
       /\ \A i \in 1..Len(widgets) :
            LET w == widgets[i]
                catalog == {d \in Range(DEFAULT_WIDGETS) : d.key = w.key}
            IN /\ w.visible = (\E j \in 1..Len(visibleWidgets) : visibleWidgets[j] = w.key)
               /\ IF w.key \in DOMAIN widgetSizes
                  THEN w.size = widgetSizes[w.key]
                  ELSE \E d \in catalog : w.size = d.size

C15_Witness ==
  /\ lastOp.op = "init"
  /\ widgetOrder = <<"growthTrend", "removedWidget">>
  /\ visibleWidgets = <<"leads", "removedWidget">>
  /\ "leads" \in DOMAIN widgetSizes
  /\ widgets[1].key = "growthTrend"
  /\ widgets[2] = W("leads", TRUE, "xl")
  /\ Len(widgets) = Len(DEFAULT_WIDGETS)

\* ---- C16: after handleReset the list equals DEFAULT_WIDGETS in order, in
\* every size and in every visible flag
C16_ResetIsDefault ==
  lastOp.op = "handleReset" => widgets = DEFAULT_WIDGETS

\* ---- C17: a completing fetchEmails call leaves loading false, and when its
\* query returned an error the list keeps its contents
C17_ErrorKeepsList ==
  [][\A i \in 1..Len(fetches) :
       FetchComplete(i) =>
         /\ loading' = FALSE
         /\ fetches[i].state = "error" => emails' = emails]_vars

\* the only query of the mount has failed and the list, filled by INSERT
\* notifications, is still there
C17_Witness ==
  /\ mounted
  /\ fetches = <<>>
  /\ ~loading
  /\ emailsFor = <<>>
  /\ emails # <<>>

\* ---- C18: no two elements of the email list have the same id
C18_NoDuplicateIds ==
  \A i, j \in 1..Len(emails) : emails[i].id = emails[j].id => i = j

\* ---- C11: once no reply request is outstanding, the replies state holds
\* the replies of the selected email (or nothing, when their query failed),
\* and is empty when no email is selected or its reply_count is 0
C11_RepliesOfSelected ==
  (mounted /\ replyFetches = <<>>) =>
    IF selectedEmail # NoEmail /\ selectedEmail.reply_count > 0
    THEN replies \in {RepliesOf(selectedEmail.id), <<>>}
    ELSE replies = <<>>

\* ---- C12: when the handler has processed an UPDATE notification for the
\* selected email, the selected email and every list element with its id have
\* the same field values
C12_SelectedFollowsUpdate ==
  [][(/\ Notify
      /\ Head(notifQ).eventType = "UPDATE"
      /\ selectedEmail # NoEmail
      /\ Head(notifQ).new.id = selectedEmail.id) =>
       /\ selectedEmail' # NoEmail
       /\ selectedEmail'.id = selectedEmail.id
       /\ \A i \in 1..Len(emails') :
            emails'[i].id = selectedEmail'.id => emails'[i] = selectedEmail']_vars

C12_Witness ==
  /\ mounted
  /\ lastDialogOp = "updated"
  /\ selectedEmail # NoEmail
  /\ selectedEmail.status = "delivered"
  /\ \E i \in 1..Len(emails) : emails[i] = selectedEmail

\* ---- C14: while no email is selected showTechnicalDetails is false, and
\* when the dialog opens from the closed state the details are collapsed
C14_DetailsResetOnClose ==
  /\ []((mounted /\ selectedEmail = NoEmail) => showTechnicalDetails = FALSE)
  /\ [][(selectedEmail = NoEmail /\ selectedEmail' # NoEmail) =>
          showTechnicalDetails' = FALSE]_vars

\* the dialog was closed with the details expanded
C14_Witness ==
  /\ mounted
  /\ lastDialogOp = "collapsed"
  /\ selectedEmail = NoEmail
  /\ showTechnicalDetails = FALSE

====
